---- MODULE Spec2Model ----
(***************************************************************************)
(* LawnConnect API: the booking lifecycle (bookingService), the HTTP       *)
(* handlers in front of it (BookingHandler), the authorization gate        *)
(* (AuthMiddleware, RoleMiddleware), the token issuer (authService.Login)  *)
(* and the route registration of main.                                     *)
(*                                                                         *)
(* One action is one HTTP request served from its first middleware to its  *)
(* response.  The Mongo collections are the variables users and bookings.  *)
(***************************************************************************)
EXTENDS Integers, Sequences, FiniteSets, TLC

VARIABLES
    users,      \* the "users" collection: a set of user documents
    bookings,   \* the "bookings" collection: a sequence of booking documents, _id = index
    now,        \* the wall clock (hours)
    gateKey,    \* handlers.jwtKey: JWT_SECRET as read from the process environment
    storeUp,    \* the bookings collection answers; when FALSE its driver calls return an error
    resetTokens, \* the IDs of the users that hold a password-reset token
    calls,      \* the requests in flight between their read of the store and their response
    resp        \* the last request's outcome: response, handler reached, context, error

vars == <<users, bookings, now, gateKey, storeUp, resetTokens, calls, resp>>

----------------------------------------------------------------------------
(* Bounds *)

MaxUsers == 3
MaxBookings == 1
MaxFrameBookings == 2
MaxCalls == 2
MaxTime == 26
ClockStep == 13

----------------------------------------------------------------------------
(* Program constants *)

\* expirationTime := time.Now().Add(24 * time.Hour)
TokenTTL == 24

\* primitive.NilObjectID
NilObjectID == 0

\* var jwtKey = []byte("your_very_secure_secret_key")   (package services)
jwtKey == "your_very_secure_secret_key"

\* Values the JWT_SECRET environment variable can have when the process starts:
\* unset, the value of the README's sample .env, the issuer's literal.
EnvSecrets == {"", "your_secret_key", "your_very_secure_secret_key"}

\* A key that is none of the above, used by a client that signs its own token.
ForgedKey == "forged_key"

----------------------------------------------------------------------------
(* Errors: Go error values, by dynamic type and message *)

NoErr == [type |-> "nil", msg |-> ""]

\* errors.New(msg)
ErrorsNew(m) == [type |-> "errorString", msg |-> m]

\* apperror.CustomError{Message: m}
CustomError(m) == [type |-> "CustomError", msg |-> m]

\* apperror.NotFound{Resource: r}; Error() is "<r> not found"
NotFound(r) == [type |-> "NotFound", msg |-> r]

\* apperror.DuplicateError{Resource: r}
DuplicateError(r) == [type |-> "DuplicateError", msg |-> r]

\* apperror.InvalidLoginCredentials{}
InvalidLoginCredentials == [type |-> "InvalidLoginCredentials", msg |-> "invalid email or password"]

\* fmt.Errorf("<m>: %w", err): an error of no apperror type that wraps a
\* driver error
Errorf(m) == [type |-> "wrapError", msg |-> m]

\* errors of github.com/golang-jwt/jwt/v5 returned by ParseWithClaims
JwtError(kind) == [type |-> "jwt", msg |-> kind]

----------------------------------------------------------------------------
(* Token issuer and verification *)

\* HMAC-SHA256 of the claims under a key: two MACs are equal exactly when
\* key and message are equal.
HS256(key, claims) == <<key, claims>>

\* jwt.NewWithClaims(jwt.SigningMethodHS256, claims).SignedString(key)
SignedString(claims, key) ==
    [wellformed |-> TRUE, claims |-> claims, sig |-> HS256(key, claims)]

\* Claims{UserID, Role, RegisteredClaims{ExpiresAt, IssuedAt}}
Claims(userID, role, t) ==
    [userId |-> userID, role |-> role, exp |-> t + TokenTTL, iat |-> t]

NoClaims == [userId |-> NilObjectID, role |-> "", exp |-> 0, iat |-> 0]

\* a string that is not three base64 segments
GarbageToken == [wellformed |-> FALSE, claims |-> NoClaims, sig |-> HS256("", NoClaims)]

\* a verification that does not look at exp
ParseWithClaimsBadExp(tok, key, t) ==
    IF ~tok.wellformed THEN [err |-> JwtError("ErrTokenMalformed"), claims |-> NoClaims]
    ELSE IF tok.sig # HS256(key, tok.claims)
        THEN [err |-> JwtError("ErrTokenSignatureInvalid"), claims |-> tok.claims]
    ELSE [err |-> NoErr, claims |-> tok.claims]

\* jwt.ParseWithClaims(tokenString, claims, keyFunc): decode, verify the
\* signature under the key, then validate exp (valid while now is before exp).
ParseWithClaims(tok, key, t) ==
    IF ~tok.wellformed THEN [err |-> JwtError("ErrTokenMalformed"), claims |-> NoClaims]
    ELSE IF tok.sig # HS256(key, tok.claims)
        THEN [err |-> JwtError("ErrTokenSignatureInvalid"), claims |-> tok.claims]
    ELSE IF ~(t < tok.claims.exp)
        THEN [err |-> JwtError("ErrTokenExpired"), claims |-> tok.claims]
    ELSE [err |-> NoErr, claims |-> tok.claims]

----------------------------------------------------------------------------
(* Responses *)

NoCtx == [userID |-> NilObjectID, role |-> ""]

\* what a request left behind: the JSON envelope's status and message, the
\* business handler that was entered ("none" when a middleware answered), the
\* context values the gate attached, and the error value that decided it
Response(code, message, handler, ctx, err) ==
    [code |-> code, message |-> message, handler |-> handler, ctx |-> ctx, err |-> err]

NoResponse == Response(0, "", "none", NoCtx, NoErr)

\* strings.ToLower on the scheme word of the header
ToLower(s) ==
    CASE s = "Bearer" -> "bearer"
      [] OTHER -> s

\* AuthMiddleware: header is strings.Split(authHeader, " "), <<>> when the
\* header is absent.  Returns the 401 response or the context for next.
AuthMiddleware(header) ==
    IF Len(header) = 0
        THEN [ok |-> FALSE, ctx |-> NoCtx,
              resp |-> Response(401, "Authorization header is missing", "none", NoCtx, NoErr)]
    ELSE IF Len(header) # 2 \/ ToLower(header[1]) # "bearer"
        THEN [ok |-> FALSE, ctx |-> NoCtx,
              resp |-> Response(401, "Authorization header must be 'Bearer <token>'", "none", NoCtx, NoErr)]
    ELSE LET p == ParseWithClaims(header[2], gateKey, now) IN
        IF p.err # NoErr
            THEN [ok |-> FALSE, ctx |-> NoCtx,
                  resp |-> Response(401, "Invalid token", "none", NoCtx, p.err)]
            ELSE [ok |-> TRUE, ctx |-> [userID |-> p.claims.userId, role |-> p.claims.role],
                  resp |-> NoResponse]

\* a role check that lets every role through
RoleMiddlewareAny(requiredRole, ctx) == TRUE

\* RoleMiddleware(requiredRole): TRUE when next is served

RoleMiddleware(requiredRole, ctx) == ctx.role = requiredRole

Forbidden403(ctx) ==
    Response(403, "Access denied: Insufficient privileges", "none", ctx, NoErr)

----------------------------------------------------------------------------
(* Booking documents and the bookings collection *)

\* a nil *time.Time
NoTime == -1

\* a new booking that does not record who created it
NewBookingNoCustomer(customerID, date, bookingTime, address, description, t) ==
    [customerId |-> NilObjectID, mowerId |-> NilObjectID,
     date |-> date, time |-> bookingTime, address |-> address, description |-> description,
     status |-> "pending", price |-> 0, billingStatus |-> "",
     acceptedTime |-> NoTime, completedTime |-> NoTime,
     createdAt |-> t, updatedAt |-> t]

\* domain.Booking as CreateBooking fills it; every other field has Go's zero value
NewBooking(customerID, date, bookingTime, address, description, t) ==
    [customerId |-> customerID, mowerId |-> NilObjectID,
     date |-> date, time |-> bookingTime, address |-> address, description |-> description,
     status |-> "pending", price |-> 0, billingStatus |-> "",
     acceptedTime |-> NoTime, completedTime |-> NoTime,
     createdAt |-> t, updatedAt |-> t]

\* bookingRepository.CreateBooking: InsertOne
InsertBooking(bs, booking) == Append(bs, booking)

\* a FindOne that reports every failure of the driver as absence
FindBookingByIDAllNotFound(bs, bookingID) ==
    IF storeUp /\ bookingID \in DOMAIN bs
        THEN [err |-> NoErr, booking |-> bs[bookingID]]
        ELSE [err |-> NotFound("Booking"), booking |-> NewBooking(NilObjectID, "", "", "", "", 0)]

\* bookingRepository.FindBookingByID: FindOne({_id: bookingID}); ErrNoDocuments
\* becomes NotFound, any other driver error is wrapped
FindBookingByID(bs, bookingID) ==
    IF ~storeUp
        THEN [err |-> Errorf("failed to find booking"),
              booking |-> NewBooking(NilObjectID, "", "", "", "", 0)]
    ELSE IF bookingID \in DOMAIN bs
        THEN [err |-> NoErr, booking |-> bs[bookingID]]
        ELSE [err |-> NotFound("Booking"), booking |-> NewBooking(NilObjectID, "", "", "", "", 0)]

\* a document as a query returns it: its _id and its fields
Stored(bs, bookingID) == [id |-> bookingID, booking |-> bs[bookingID]]

\* collection.Find(filter) and cursor.All: the documents the filter matches
\* (matching: their IDs), in the order of the collection
Find(bs, matching) ==
    LET ids == SelectSeq([i \in DOMAIN bs |-> i], LAMBDA i : i \in matching)
    IN  [k \in DOMAIN ids |-> Stored(bs, ids[k])]

\* a query for the customer's bookings only
FindBookingsByUserIDCustomerOnly(bs, userID) ==
    IF ~storeUp THEN [err |-> Errorf("failed to find bookings"), list |-> <<>>]
    ELSE [err |-> NoErr, list |-> Find(bs, { i \in DOMAIN bs : bs[i].customerId = userID })]

\* bookingRepository.FindBookingsByUserID:
\* Find({$or: [{customerId: userID}, {mowerId: userID}]}); a document without
\* mowerId (omitempty) matches no mowerId value
FindBookingsByUserID(bs, userID) ==
    IF ~storeUp THEN [err |-> Errorf("failed to find bookings"), list |-> <<>>]
    ELSE [err |-> NoErr,
          list |-> Find(bs, { i \in DOMAIN bs :
                               \/ bs[i].customerId = userID
                               \/ (bs[i].mowerId # NilObjectID /\ bs[i].mowerId = userID) })]

\* a query for the bookings that are not finished
FindPendingBookingsOpen(bs) ==
    IF ~storeUp THEN [err |-> Errorf("failed to find pending bookings"), list |-> <<>>]
    ELSE [err |-> NoErr, list |-> Find(bs, { i \in DOMAIN bs : bs[i].status \in {"pending", "accepted"} })]

\* bookingRepository.FindPendingBookings: Find({status: "pending"})
FindPendingBookings(bs) ==
    IF ~storeUp THEN [err |-> Errorf("failed to find pending bookings"), list |-> <<>>]
    ELSE [err |-> NoErr, list |-> Find(bs, { i \in DOMAIN bs : bs[i].status = "pending" })]

\* a conditional update: the filter also asks for the status the caller read
UpdateBookingIfPending(bs, bookingID, set) ==
    IF bookingID \in DOMAIN bs /\ bs[bookingID].status = "pending"
        THEN [bs EXCEPT ![bookingID] =
                [f \in DOMAIN @ |-> IF f \in DOMAIN set THEN set[f] ELSE @[f]]]
        ELSE bs

\* an update whose filter matches every document
UpdateBookingEveryDocument(bs, bookingID, set) ==
    [b \in DOMAIN bs |-> [f \in DOMAIN bs[b] |-> IF f \in DOMAIN set THEN set[f] ELSE bs[b][f]]]

\* bookingRepository.UpdateBooking: UpdateOne({_id: bookingID}, {$set: set});
\* a filter that matches nothing updates nothing and is no error
UpdateBooking(bs, bookingID, set) ==
    IF bookingID \in DOMAIN bs
        THEN [bs EXCEPT ![bookingID] =
                [f \in DOMAIN @ |-> IF f \in DOMAIN set THEN set[f] ELSE @[f]]]
        ELSE bs

----------------------------------------------------------------------------
(* bookingService: each operation yields its error and the collection after it *)

CreateBooking(bs, customerID, date, bookingTime, address, description, t) ==
    IF date = "" \/ bookingTime = "" \/ address = ""
        THEN [err |-> ErrorsNew("date, time, and address are required"), bookings |-> bs]
    ELSE IF ~storeUp
        THEN [err |-> Errorf("service failed to create booking"), bookings |-> bs]
        ELSE [err |-> NoErr,
              bookings |-> InsertBooking(bs, NewBooking(customerID, date, bookingTime,
                                                        address, description, t))]

\* bookingService.GetBookingByID: NotFound is passed on, any other error wrapped
GetBookingByID(bs, bookingID) ==
    LET f == FindBookingByID(bs, bookingID) IN
    IF f.err # NoErr
        THEN IF f.err.type = "NotFound"
                THEN [err |-> f.err, booking |-> f.booking]
                ELSE [err |-> Errorf("service failed to get booking"), booking |-> f.booking]
        ELSE [err |-> NoErr, booking |-> f.booking]

\* bookingService.ListBookings
ListBookings(bs, userID) ==
    LET f == FindBookingsByUserID(bs, userID) IN
    IF f.err # NoErr
        THEN [err |-> Errorf("service failed to list bookings"), list |-> <<>>]
        ELSE [err |-> NoErr, list |-> f.list]

\* bookingService.ListPendingBookings
ListPendingBookings(bs) ==
    LET f == FindPendingBookings(bs) IN
    IF f.err # NoErr
        THEN [err |-> Errorf("service failed to list pending bookings"), list |-> <<>>]
        ELSE [err |-> NoErr, list |-> f.list]

\* an Accept whose $set leaves mowerId out
AcceptBookingNoMower(bs, bookingID, mowerID, t) ==
    LET f == FindBookingByID(bs, bookingID) IN
    IF f.err # NoErr THEN [err |-> f.err, bookings |-> bs]
    ELSE IF f.booking.status # "pending"
        THEN [err |-> ErrorsNew("booking is not pending and cannot be accepted"),
              bookings |-> bs]
    ELSE [err |-> NoErr,
          bookings |-> UpdateBooking(bs, bookingID,
                          [status |-> "accepted", updatedAt |-> t])]

\* an Accept that reports the conflict for every assigned booking, whoever
\* holds it, before it looks at the status
AcceptBookingConflictFirst(bs, bookingID, mowerID, t) ==
    LET f == FindBookingByID(bs, bookingID) IN
    IF f.err # NoErr THEN [err |-> f.err, bookings |-> bs]
    ELSE IF f.booking.mowerId # NilObjectID
        THEN [err |-> CustomError("This booking has already been accepted by another mower"),
              bookings |-> bs]
    ELSE IF f.booking.status # "pending"
        THEN [err |-> ErrorsNew("booking is not pending and cannot be accepted"),
              bookings |-> bs]
    ELSE [err |-> NoErr,
          bookings |-> UpdateBooking(bs, bookingID,
                          [mowerId |-> mowerID, status |-> "accepted", updatedAt |-> t])]

\* an Accept that records the mower and leaves the booking pending
AcceptBookingKeepsPending(bs, bookingID, mowerID, t) ==
    LET f == FindBookingByID(bs, bookingID) IN
    IF f.err # NoErr THEN [err |-> f.err, bookings |-> bs]
    ELSE IF f.booking.status # "pending"
        THEN [err |-> ErrorsNew("booking is not pending and cannot be accepted"),
              bookings |-> bs]
    ELSE IF f.booking.mowerId # NilObjectID /\ f.booking.mowerId # mowerID
        THEN [err |-> CustomError("This booking has already been accepted by another mower"),
              bookings |-> bs]
    ELSE [err |-> NoErr,
          bookings |-> UpdateBooking(bs, bookingID,
                          [mowerId |-> mowerID, updatedAt |-> t])]

\* an Accept that puts the booking in status ongoing
AcceptBookingOngoing(bs, bookingID, mowerID, t) ==
    LET f == FindBookingByID(bs, bookingID) IN
    IF f.err # NoErr THEN [err |-> f.err, bookings |-> bs]
    ELSE IF f.booking.status # "pending"
        THEN [err |-> ErrorsNew("booking is not pending and cannot be accepted"),
              bookings |-> bs]
    ELSE IF f.booking.mowerId # NilObjectID /\ f.booking.mowerId # mowerID
        THEN [err |-> CustomError("This booking has already been accepted by another mower"),
              bookings |-> bs]
    ELSE [err |-> NoErr,
          bookings |-> UpdateBooking(bs, bookingID,
                          [mowerId |-> mowerID, status |-> "ongoing", updatedAt |-> t])]

AcceptBooking(bs, bookingID, mowerID, t) ==
    LET f == FindBookingByID(bs, bookingID) IN
    IF f.err # NoErr THEN [err |-> f.err, bookings |-> bs]
    ELSE IF f.booking.status # "pending"
        THEN [err |-> ErrorsNew("booking is not pending and cannot be accepted"),
              bookings |-> bs]
    ELSE IF f.booking.mowerId # NilObjectID /\ f.booking.mowerId # mowerID
        THEN [err |-> CustomError("This booking has already been accepted by another mower"),
              bookings |-> bs]
    ELSE [err |-> NoErr,
          bookings |-> UpdateBooking(bs, bookingID,
                          [mowerId |-> mowerID, status |-> "accepted", updatedAt |-> t])]

\* a Reject whose $set also writes the caller as mowerId
RejectBookingSetsMower(bs, bookingID, mowerID, t) ==
    LET f == FindBookingByID(bs, bookingID) IN
    IF f.err # NoErr THEN [err |-> f.err, bookings |-> bs]
    ELSE IF f.booking.status # "pending"
        THEN [err |-> ErrorsNew("booking is not pending and cannot be rejected"),
              bookings |-> bs]
    ELSE [err |-> NoErr,
          bookings |-> UpdateBooking(bs, bookingID,
                          [mowerId |-> mowerID, status |-> "rejected", updatedAt |-> t])]

RejectBooking(bs, bookingID, mowerID, t) ==
    LET f == FindBookingByID(bs, bookingID) IN
    IF f.err # NoErr THEN [err |-> f.err, bookings |-> bs]
    ELSE IF f.booking.status # "pending"
        THEN [err |-> ErrorsNew("booking is not pending and cannot be rejected"),
              bookings |-> bs]
    ELSE IF f.booking.mowerId # NilObjectID /\ f.booking.mowerId # mowerID
        THEN [err |-> CustomError("This booking has already been accepted by another mower"),
              bookings |-> bs]
    ELSE [err |-> NoErr,
          bookings |-> UpdateBooking(bs, bookingID,
                          [status |-> "rejected", updatedAt |-> t])]

\* a Complete that writes the price before it looks at the status
CompleteBookingWriteFirst(bs, bookingID, price, t) ==
    LET f == FindBookingByID(bs, bookingID)
        written == UpdateBooking(bs, bookingID, [price |-> price, updatedAt |-> t])
    IN
    IF f.err # NoErr THEN [err |-> f.err, bookings |-> bs]
    ELSE IF f.booking.status # "accepted"
        THEN [err |-> CustomError("Booking is not accepted and cannot be completed"),
              bookings |-> written]
    ELSE [err |-> NoErr,
          bookings |-> UpdateBooking(written, bookingID, [status |-> "completed"])]

CompleteBooking(bs, bookingID, price, t) ==
    LET f == FindBookingByID(bs, bookingID) IN
    IF f.err # NoErr THEN [err |-> f.err, bookings |-> bs]
    ELSE IF f.booking.status # "accepted"
        THEN [err |-> CustomError("Booking is not accepted and cannot be completed"),
              bookings |-> bs]
    ELSE [err |-> NoErr,
          bookings |-> UpdateBooking(bs, bookingID,
                          [status |-> "completed", price |-> price, updatedAt |-> t])]

\* the guard of the earlier CancelBooking: only completed and cancelled are refused
CancelBookingEarlierGuard(bs, bookingID, customerID, t) ==
    LET f == FindBookingByID(bs, bookingID) IN
    IF f.err # NoErr THEN [err |-> f.err, bookings |-> bs]
    ELSE IF f.booking.status = "completed" \/ f.booking.status = "cancelled"
        THEN [err |-> CustomError("Booking cannot be cancelled in its current state"),
              bookings |-> bs]
    ELSE IF f.booking.customerId # customerID
        THEN [err |-> CustomError("Unauthorized to cancel this booking"), bookings |-> bs]
    ELSE [err |-> NoErr,
          bookings |-> UpdateBooking(bs, bookingID,
                          [status |-> "cancelled", updatedAt |-> t])]

\* a Cancel that does not compare the caller with the booking's customer
CancelBookingNoOwner(bs, bookingID, customerID, t) ==
    LET f == FindBookingByID(bs, bookingID) IN
    IF f.err # NoErr THEN [err |-> f.err, bookings |-> bs]
    ELSE IF f.booking.status # "pending" /\ f.booking.status # "accepted"
        THEN [err |-> CustomError("Booking cannot be cancelled in its current state"),
              bookings |-> bs]
    ELSE [err |-> NoErr,
          bookings |-> UpdateBooking(bs, bookingID,
                          [status |-> "cancelled", updatedAt |-> t])]

CancelBooking(bs, bookingID, customerID, t) ==
    LET f == FindBookingByID(bs, bookingID) IN
    IF f.err # NoErr THEN [err |-> f.err, bookings |-> bs]
    ELSE IF f.booking.status # "pending" /\ f.booking.status # "accepted"
        THEN [err |-> CustomError("Booking cannot be cancelled in its current state"),
              bookings |-> bs]
    ELSE IF f.booking.customerId # customerID
        THEN [err |-> CustomError("Unauthorized to cancel this booking"), bookings |-> bs]
    ELSE [err |-> NoErr,
          bookings |-> UpdateBooking(bs, bookingID,
                          [status |-> "cancelled", updatedAt |-> t])]

----------------------------------------------------------------------------
(* BookingHandler: each handler yields its response and the collection after it *)

Result(r, bs) == [resp |-> r, bookings |-> bs]

\* a response whose envelope carries data
ResultData(r, bs, data) == [resp |-> r, bookings |-> bs, data |-> data]

\* primitive.ObjectIDFromHex on the {bookingID} URL parameter; a parameter is
\* [valid |-> is it 24 hex digits, oid |-> the ID it spells]
ObjectIDFromHex(param) ==
    IF param.valid THEN [err |-> NoErr, oid |-> param.oid]
                   ELSE [err |-> ErrorsNew("invalid hex"), oid |-> NilObjectID]

\* a Create handler that reads the customer from the body's customerId field
BookingHandler_CreateBookingBodyCustomer(bs, ctx, body, t) ==
    IF body.malformed
        THEN Result(Response(400, "Invalid request payload", "CreateBooking", ctx, NoErr), bs)
    ELSE IF body.customerId = NilObjectID
        THEN Result(Response(400, "Invalid customer ID", "CreateBooking", ctx, NoErr), bs)
    ELSE LET r == CreateBooking(bs, body.customerId, body.date, body.time, body.address,
                                body.description, t) IN
        IF r.err # NoErr
            THEN Result(Response(500, "Failed to create booking", "CreateBooking", ctx, r.err), bs)
            ELSE Result(Response(201, "Booking created successfully", "CreateBooking", ctx, NoErr),
                        r.bookings)

BookingHandler_CreateBooking(bs, ctx, body, t) ==
    IF body.malformed
        THEN Result(Response(400, "Invalid request payload", "CreateBooking", ctx, NoErr), bs)
    ELSE LET r == CreateBooking(bs, ctx.userID, body.date, body.time, body.address,
                                body.description, t) IN
        IF r.err # NoErr
            THEN Result(Response(500, "Failed to create booking", "CreateBooking", ctx, r.err), bs)
            ELSE Result(Response(201, "Booking created successfully", "CreateBooking", ctx, NoErr),
                        r.bookings)

BookingHandler_GetBookingByID(bs, ctx, param) ==
    LET id == ObjectIDFromHex(param) IN
    IF id.err # NoErr
        THEN Result(Response(400, "Invalid booking ID", "GetBookingByID", ctx, id.err), bs)
    ELSE LET r == GetBookingByID(bs, id.oid) IN
        IF r.err # NoErr
            THEN IF r.err.type = "NotFound"
                THEN Result(Response(404, "Booking not found", "GetBookingByID", ctx, r.err), bs)
                ELSE Result(Response(500, "Failed to retrieve booking", "GetBookingByID", ctx, r.err), bs)
            ELSE ResultData(Response(200, "Booking retrieved successfully", "GetBookingByID", ctx, NoErr),
                            bs, Stored(bs, id.oid))

BookingHandler_AcceptBooking(bs, ctx, param, t) ==
    LET id == ObjectIDFromHex(param) IN
    IF id.err # NoErr
        THEN Result(Response(400, "Invalid booking ID", "AcceptBooking", ctx, id.err), bs)
    ELSE LET r == AcceptBooking(bs, id.oid, ctx.userID, t) IN
        IF r.err # NoErr
            THEN Result(Response(500, "Failed to accept booking", "AcceptBooking", ctx, r.err), bs)
            ELSE Result(Response(200, "Booking accepted successfully", "AcceptBooking", ctx, NoErr),
                        r.bookings)

\* a Complete handler that lets the service look at the status before it
\* looks at the price
BookingHandler_CompleteBookingStateFirst(bs, ctx, param, body, t) ==
    LET id == ObjectIDFromHex(param) IN
    IF id.err # NoErr
        THEN Result(Response(400, "Invalid booking ID", "CompleteBooking", ctx, id.err), bs)
    ELSE IF body.malformed
        THEN Result(Response(400, "Invalid request payload", "CompleteBooking", ctx, NoErr), bs)
    ELSE LET r == CompleteBooking(bs, id.oid, body.price, t) IN
        IF r.err # NoErr
            THEN IF r.err.type = "CustomError"
                THEN Result(Response(409, r.err.msg, "CompleteBooking", ctx, r.err), bs)
                ELSE Result(Response(500, "Failed to complete booking", "CompleteBooking", ctx, r.err), bs)
        ELSE IF body.price <= 0
            THEN Result(Response(400, "Price must be a positive number", "CompleteBooking", ctx, NoErr), bs)
        ELSE Result(Response(200, "Booking completed and payment simulated successfully",
                             "CompleteBooking", ctx, NoErr), r.bookings)

\* a Complete handler without the price check
BookingHandler_CompleteBookingAnyPrice(bs, ctx, param, body, t) ==
    LET id == ObjectIDFromHex(param) IN
    IF id.err # NoErr
        THEN Result(Response(400, "Invalid booking ID", "CompleteBooking", ctx, id.err), bs)
    ELSE IF body.malformed
        THEN Result(Response(400, "Invalid request payload", "CompleteBooking", ctx, NoErr), bs)
    ELSE LET r == CompleteBooking(bs, id.oid, body.price, t) IN
        IF r.err # NoErr
            THEN IF r.err.type = "CustomError"
                THEN Result(Response(409, r.err.msg, "CompleteBooking", ctx, r.err), bs)
                ELSE Result(Response(500, "Failed to complete booking", "CompleteBooking", ctx, r.err), bs)
            ELSE Result(Response(200, "Booking completed and payment simulated successfully",
                                 "CompleteBooking", ctx, NoErr), r.bookings)

BookingHandler_CompleteBooking(bs, ctx, param, body, t) ==
    LET id == ObjectIDFromHex(param) IN
    IF id.err # NoErr
        THEN Result(Response(400, "Invalid booking ID", "CompleteBooking", ctx, id.err), bs)
    ELSE IF body.malformed
        THEN Result(Response(400, "Invalid request payload", "CompleteBooking", ctx, NoErr), bs)
    ELSE IF body.price <= 0
        THEN Result(Response(400, "Price must be a positive number", "CompleteBooking", ctx, NoErr), bs)
    ELSE LET r == CompleteBooking(bs, id.oid, body.price, t) IN
        IF r.err # NoErr
            THEN IF r.err.type = "CustomError"
                THEN Result(Response(409, r.err.msg, "CompleteBooking", ctx, r.err), bs)
                ELSE Result(Response(500, "Failed to complete booking", "CompleteBooking", ctx, r.err), bs)
            ELSE Result(Response(200, "Booking completed and payment simulated successfully",
                                 "CompleteBooking", ctx, NoErr), r.bookings)

BookingHandler_ListBookings(bs, ctx) ==
    LET r == ListBookings(bs, ctx.userID) IN
    IF r.err # NoErr
        THEN Result(Response(500, "Failed to retrieve bookings", "ListBookings", ctx, r.err), bs)
        ELSE ResultData(Response(200, "Bookings retrieved successfully", "ListBookings", ctx, NoErr),
                        bs, r.list)

BookingHandler_ListPendingBookings(bs, ctx) ==
    LET r == ListPendingBookings(bs) IN
    IF r.err # NoErr
        THEN Result(Response(500, "Failed to retrieve pending bookings", "ListPendingBookings",
                             ctx, r.err), bs)
        ELSE ResultData(Response(200, "Pending bookings retrieved successfully",
                                 "ListPendingBookings", ctx, NoErr), bs, r.list)

BookingHandler_CancelBooking(bs, ctx, param, t) ==
    LET id == ObjectIDFromHex(param) IN
    IF id.err # NoErr
        THEN Result(Response(400, "Invalid booking ID", "CancelBooking", ctx, id.err), bs)
    ELSE LET r == CancelBooking(bs, id.oid, ctx.userID, t) IN
        IF r.err # NoErr
            THEN IF r.err.type = "CustomError"
                THEN Result(Response(403, r.err.msg, "CancelBooking", ctx, r.err), bs)
                ELSE Result(Response(500, "Failed to cancel booking", "CancelBooking", ctx, r.err), bs)
            ELSE Result(Response(200, "Booking cancelled successfully", "CancelBooking", ctx, NoErr),
                        r.bookings)

BookingHandler_RejectBooking(bs, ctx, param, t) ==
    LET id == ObjectIDFromHex(param) IN
    IF id.err # NoErr
        THEN Result(Response(400, "Invalid booking ID", "RejectBooking", ctx, id.err), bs)
    ELSE LET r == RejectBooking(bs, id.oid, ctx.userID, t) IN
        IF r.err # NoErr
            THEN IF r.err.type = "CustomError"
                THEN Result(Response(403, r.err.msg, "RejectBooking", ctx, r.err), bs)
                ELSE Result(Response(500, "Failed to reject booking", "RejectBooking", ctx, r.err), bs)
            ELSE Result(Response(200, "Booking rejected successfully", "RejectBooking", ctx, NoErr),
                        r.bookings)

----------------------------------------------------------------------------
(* Route registration of main *)

Route(method, pattern, role, handler) ==
    [method |-> method, pattern |-> pattern, role |-> role, handler |-> handler]

\* the registrations in the order main makes them; each r.Group wraps its
\* handlers in AuthMiddleware and RoleMiddleware(role)
Routes ==
    << Route("POST", "/bookings", "customer", "CreateBooking"),
       Route("GET", "/bookings", "customer", "ListBookings"),
       Route("GET", "/bookings/{bookingID}", "customer", "GetBookingByID"),
       Route("PUT", "/bookings/{bookingID}/cancel", "customer", "CancelBooking"),
       Route("GET", "/bookings", "mower", "ListBookings"),
       Route("GET", "/bookings/pending", "mower", "ListPendingBookings"),
       Route("GET", "/bookings/{bookingID}", "mower", "GetBookingByID"),
       Route("PUT", "/bookings/{bookingID}/accept", "mower", "AcceptBooking"),
       Route("PUT", "/bookings/{bookingID}/complete", "mower", "CompleteBooking"),
       Route("PUT", "/bookings/{bookingID}/reject", "mower", "RejectBooking") >>

Registered(method, pattern) ==
    {i \in DOMAIN Routes : Routes[i].method = method /\ Routes[i].pattern = pattern}

\* chi keeps one routing tree for a router and its inline groups; inserting
\* a method and pattern that is already there replaces the endpoint, so the
\* registration made last is the one that serves
Resolve(method, pattern) ==
    LET idx == Registered(method, pattern) IN
    IF idx = {} THEN Route(method, pattern, "", "NotFound")
    ELSE Routes[CHOOSE i \in idx : \A j \in idx : j <= i]

----------------------------------------------------------------------------
(* authService and AuthHandler *)

\* primitive.NewObjectID() for a new user: a value no earlier document has.
\* The model names it after the email being registered; Register stores at
\* most one user per email, so the name is fresh.
UserOID ==
    [alice |-> 101, bob |-> 102, mia |-> 103, max |-> 104, eve |-> 105]

\* bcrypt.GenerateFromPassword / bcrypt.CompareHashAndPassword
GenerateFromPassword(password) == <<"bcrypt", password>>
CompareHashAndPassword(hash, password) == hash = GenerateFromPassword(password)

\* userRepository.FindUserByEmail
FindUserByEmail(us, email) ==
    IF \E u \in us : u.email = email
        THEN [err |-> NoErr, user |-> CHOOSE u \in us : u.email = email]
        ELSE [err |-> NotFound("User"),
              user |-> [id |-> NilObjectID, email |-> "", password |-> <<>>, role |-> "",
                        createdAt |-> 0]]

\* a Register that does not look the email up first
RegisterNoLookup(us, name, email, password, role, t) ==
    [err |-> NoErr,
     users |-> us \cup {[id |-> UserOID[email], email |-> email,
                         password |-> GenerateFromPassword(password),
                         role |-> role, createdAt |-> t]}]

\* authService.Register
Register(us, name, email, password, role, t) ==
    LET f == FindUserByEmail(us, email) IN
    IF f.err = NoErr
        THEN [err |-> DuplicateError("User with this email"), users |-> us]
        ELSE [err |-> NoErr,
              users |-> us \cup {[id |-> UserOID[email], email |-> email,
                                  password |-> GenerateFromPassword(password),
                                  role |-> role, createdAt |-> t]}]

\* a Login that passes the repository's NotFound on for an unknown email
LoginUnknownNotFound(us, email, password, t) ==
    LET f == FindUserByEmail(us, email) IN
    IF f.err # NoErr
        THEN [err |-> f.err, token |-> GarbageToken]
    ELSE IF ~CompareHashAndPassword(f.user.password, password)
        THEN [err |-> InvalidLoginCredentials, token |-> GarbageToken]
    ELSE [err |-> NoErr,
          token |-> SignedString(Claims(f.user.id, f.user.role, t), jwtKey)]

\* authService.Login
Login(us, email, password, t) ==
    LET f == FindUserByEmail(us, email) IN
    IF f.err # NoErr
        THEN [err |-> InvalidLoginCredentials, token |-> GarbageToken]
    ELSE IF ~CompareHashAndPassword(f.user.password, password)
        THEN [err |-> InvalidLoginCredentials, token |-> GarbageToken]
    ELSE [err |-> NoErr,
          token |-> SignedString(Claims(f.user.id, f.user.role, t), jwtKey)]

\* authService.ForgotPassword: looks the user up, stores a reset token for
\* it and asks the email collaborator to send it; a failure to send is
\* returned and does not take the stored token back
ForgotPassword(us, rts, email, mailUp) ==
    LET f == FindUserByEmail(us, email) IN
    IF f.err # NoErr
        THEN [err |-> f.err, resetTokens |-> rts]
    ELSE IF ~mailUp
        THEN [err |-> Errorf("failed to send password reset email"),
              resetTokens |-> rts \cup {f.user.id}]
    ELSE [err |-> NoErr, resetTokens |-> rts \cup {f.user.id}]

\* a Register handler that passes every role on to the service
AuthHandler_RegisterUser(us, body, t) ==
    LET r == Register(us, body.name, body.email, body.password, body.role, t) IN
    IF r.err # NoErr
        THEN IF r.err.type = "DuplicateError"
            THEN [resp |-> Response(409, "User with this email already exists", "Register",
                                    NoCtx, r.err),
                  users |-> us]
            ELSE [resp |-> Response(500, "Failed to register user", "Register", NoCtx, r.err),
                  users |-> us]
        ELSE [resp |-> Response(201, "User registered successfully", "Register", NoCtx, NoErr),
              users |-> r.users]

\* AuthHandler.Register
AuthHandler_Register(us, body, t) ==
    IF body.role # "customer" /\ body.role # "mower"
        THEN [resp |-> Response(400, "Invalid role specified", "Register", NoCtx, NoErr),
              users |-> us]
    ELSE LET r == Register(us, body.name, body.email, body.password, body.role, t) IN
        IF r.err # NoErr
            THEN IF r.err.type = "DuplicateError"
                THEN [resp |-> Response(409, "User with this email already exists", "Register",
                                        NoCtx, r.err),
                      users |-> us]
                ELSE [resp |-> Response(500, "Failed to register user", "Register", NoCtx, r.err),
                      users |-> us]
            ELSE [resp |-> Response(201, "User registered successfully", "Register", NoCtx, NoErr),
                  users |-> r.users]

\* AuthHandler.Login
AuthHandler_Login(us, body, t) ==
    LET r == Login(us, body.email, body.password, t) IN
    IF r.err # NoErr
        THEN IF r.err.type = "InvalidLoginCredentials"
            THEN [resp |-> Response(401, "Invalid login credentials", "Login", NoCtx, r.err),
                  token |-> r.token]
            ELSE [resp |-> Response(500, "Failed to log in", "Login", NoCtx, r.err),
                  token |-> r.token]
        ELSE [resp |-> Response(200, "Login successful", "Login", NoCtx, NoErr),
              token |-> r.token]

MsgForgot == "If a user with that email exists, a password reset link has been sent."

\* a ForgotPassword handler that answers with the service's error
AuthHandler_ForgotPasswordReportsError(us, rts, body, mailUp) ==
    IF body.malformed
        THEN [resp |-> Response(400, "Invalid request payload", "ForgotPassword", NoCtx, NoErr),
              resetTokens |-> rts]
    ELSE LET r == ForgotPassword(us, rts, body.email, mailUp) IN
        IF r.err # NoErr
            THEN IF r.err.type = "NotFound"
                THEN [resp |-> Response(404, "User not found", "ForgotPassword", NoCtx, r.err),
                      resetTokens |-> r.resetTokens]
                ELSE [resp |-> Response(500, "Failed to send reset link", "ForgotPassword",
                                        NoCtx, r.err),
                      resetTokens |-> r.resetTokens]
            ELSE [resp |-> Response(200, MsgForgot, "ForgotPassword", NoCtx, r.err),
                  resetTokens |-> r.resetTokens]

\* AuthHandler.ForgotPassword; the service's error is logged, not answered
AuthHandler_ForgotPassword(us, rts, body, mailUp) ==
    IF body.malformed
        THEN [resp |-> Response(400, "Invalid request payload", "ForgotPassword", NoCtx, NoErr),
              resetTokens |-> rts]
    ELSE LET r == ForgotPassword(us, rts, body.email, mailUp) IN
        [resp |-> Response(200, MsgForgot, "ForgotPassword", NoCtx, r.err),
         resetTokens |-> r.resetTokens]

----------------------------------------------------------------------------
(* Requests *)

Roles == {"customer", "mower"}

RegisterBody(name, password, role) ==
    [name |-> name, email |-> name, password |-> password, role |-> role]

\* registration requests of the lifecycle specification
RegInputs ==
    { RegisterBody("alice", "pw", "customer"), RegisterBody("bob", "pw", "customer"),
      RegisterBody("mia", "pw", "mower"), RegisterBody("max", "pw", "mower"),
      RegisterBody("eve", "pw", "admin") }

\* registration requests of the token specification
RegInputsToken ==
    { RegisterBody("alice", "pw", "customer"), RegisterBody("mia", "pw", "mower") }

\* registration requests of the authentication specification: the same
\* email comes with different passwords and roles
RegInputsAuth ==
    { RegisterBody(n, p, r) : n \in {"alice", "mia"}, p \in {"pw", "pw2"},
                              r \in {"customer", "mower", "admin", "super_admin"} }

ForgotBody(email) == [malformed |-> FALSE, email |-> email]

ForgotBodies ==
    { ForgotBody(e) : e \in {"alice", "bob", "mia"} }
    \cup { [malformed |-> TRUE, email |-> ""] }

LoginInputs ==
    { [email |-> e, password |-> p] : e \in {"alice", "bob", "mia", "max"}, p \in {"pw", "bad"} }

OtherRole(role) == IF role = "mower" THEN "customer" ELSE "mower"

\* the times the clock has shown
ClockValues == { t \in 0..now : t % ClockStep = 0 }

\* The token strings clients can hold: every token a login request can have
\* returned so far.  Login writes nothing to the store and a stored user's
\* email, hash and role are never rewritten, so these are the results of the
\* login requests that succeed against the stored users, at every time the
\* clock has shown since the user was registered.
Issued ==
    UNION { { Login(users, body.email, body.password, t).token :
                t \in { c \in ClockValues :
                          /\ FindUserByEmail(users, body.email).user.createdAt <= c
                          /\ Login(users, body.email, body.password, c).err = NoErr } } :
            body \in LoginInputs }

\* a minted token whose role claim was edited, the signature left as it was
Tampered(tok) == [tok EXCEPT !.claims.role = OtherRole(@)]

\* a token a client signs itself with its own key, naming a mower
ForgedTokens ==
    { SignedString(Claims(UserOID.mia, "mower", now), ForgedKey) }

\* Authorization headers, as the parts strings.Split(authHeader, " ") yields
Headers ==
    { <<>>, <<"Bearer">>, <<"Basic", GarbageToken>>, <<"Bearer", GarbageToken>> }
    \cup { <<"Bearer", tok>> : tok \in Issued }
    \cup { <<"Bearer", Tampered(tok)>> : tok \in Issued }
    \cup { <<"Bearer", tok>> : tok \in ForgedTokens }

Param(oid) == [valid |-> TRUE, oid |-> oid]
BadParam == [valid |-> FALSE, oid |-> NilObjectID]
NoParam == [valid |-> FALSE, oid |-> NilObjectID]

\* {bookingID} values: every stored ID, one ID that is not stored, one that is not hex
Params == { Param(i) : i \in 1..(MaxBookings + 1) } \cup { BadParam }

CreateBody(date, bookingTime, address, description) ==
    [malformed |-> FALSE, date |-> date, time |-> bookingTime, address |-> address,
     description |-> description, price |-> 0, customerId |-> NilObjectID, role |-> ""]

PriceBody(price) ==
    [malformed |-> FALSE, date |-> "", time |-> "", address |-> "", description |-> "",
     price |-> price, customerId |-> NilObjectID, role |-> ""]

\* the same JSON body with a customerId and a role field added
WithIdentity(body, oid, role) == [body EXCEPT !.customerId = oid, !.role = role]

MalformedBody == [PriceBody(0) EXCEPT !.malformed = TRUE]

CreateBodies ==
    { CreateBody("2024-05-01", "10:00", "1 Main St", "front lawn"),
      CreateBody("", "10:00", "1 Main St", "front lawn"),
      CreateBody("2024-05-01", "", "1 Main St", "front lawn"),
      CreateBody("2024-05-01", "10:00", "", "front lawn"),
      WithIdentity(CreateBody("2024-05-01", "10:00", "1 Main St", "front lawn"),
                   UserOID.mia, "mower"),
      MalformedBody }

Prices == {-1, 0, 50}

CompleteBodies == { PriceBody(p) : p \in Prices } \cup { MalformedBody }

ParamsOf(handler) ==
    IF handler \in {"GetBookingByID", "AcceptBooking", "CompleteBooking", "CancelBooking",
                    "RejectBooking"}
        THEN Params ELSE { NoParam }

BodiesOf(handler) ==
    CASE handler = "CreateBooking" -> CreateBodies
      [] handler = "CompleteBooking" -> CompleteBodies
      [] OTHER -> { PriceBody(0) }

\* the handler a route names, applied to the request
Dispatch(handler, bs, ctx, param, body, t) ==
    CASE handler = "CreateBooking" -> BookingHandler_CreateBooking(bs, ctx, body, t)
      [] handler = "ListBookings" -> BookingHandler_ListBookings(bs, ctx)
      [] handler = "ListPendingBookings" -> BookingHandler_ListPendingBookings(bs, ctx)
      [] handler = "GetBookingByID" -> BookingHandler_GetBookingByID(bs, ctx, param)
      [] handler = "AcceptBooking" -> BookingHandler_AcceptBooking(bs, ctx, param, t)
      [] handler = "RejectBooking" -> BookingHandler_RejectBooking(bs, ctx, param, t)
      [] handler = "CompleteBooking" -> BookingHandler_CompleteBooking(bs, ctx, param, body, t)
      [] handler = "CancelBooking" -> BookingHandler_CancelBooking(bs, ctx, param, t)
      [] OTHER -> Result(Response(404, "404 page not found", "none", ctx, NoErr), bs)

\* one request through the chain its route was registered with
Outcome(method, pattern, header, param, body) ==
    LET route == Resolve(method, pattern)
        a == AuthMiddleware(header)
    IN  IF ~a.ok THEN Result(a.resp, bookings)
        ELSE IF ~RoleMiddleware(route.role, a.ctx) THEN Result(Forbidden403(a.ctx), bookings)
        ELSE Dispatch(route.handler, bookings, a.ctx, param, body, now)

----------------------------------------------------------------------------
(* Actions *)

Init ==
    /\ users = {}
    /\ bookings = <<>>
    /\ now = 0
    /\ gateKey \in EnvSecrets
    /\ storeUp = TRUE
    /\ resetTokens = {}
    /\ calls = {}
    /\ resp = NoResponse

\* POST /auth/register
PostRegister(body) ==
    LET out == AuthHandler_Register(users, body, now) IN
    /\ Cardinality(out.users) <= MaxUsers
    /\ users' = out.users
    /\ resp' = out.resp
    /\ UNCHANGED <<bookings, now, gateKey, storeUp, resetTokens, calls>>

\* POST /auth/login; the token goes to the client (see Issued)
PostLogin(body) ==
    LET out == AuthHandler_Login(users, body, now) IN
    /\ resp' = out.resp
    /\ UNCHANGED <<users, bookings, now, gateKey, storeUp, resetTokens, calls>>

\* POST /auth/forgot-password
PostForgotPassword ==
    \E body \in ForgotBodies : \E mailUp \in BOOLEAN :
        LET out == AuthHandler_ForgotPassword(users, resetTokens, body, mailUp) IN
        /\ resetTokens' = out.resetTokens
        /\ resp' = out.resp
        /\ UNCHANGED <<users, bookings, now, gateKey, storeUp, calls>>

\* a request to a protected endpoint; the URL parameter and the body are
\* read only by a handler, so they are drawn once the middlewares let it run
RequestUpTo(method, pattern, header, cap) ==
    LET route == Resolve(method, pattern)
        a == AuthMiddleware(header)
    IN  /\ IF a.ok /\ RoleMiddleware(route.role, a.ctx)
              THEN \E param \in ParamsOf(route.handler), body \in BodiesOf(route.handler) :
                      LET out == Outcome(method, pattern, header, param, body) IN
                      /\ Len(out.bookings) <= cap
                      /\ resp' = out.resp
                      /\ bookings' = out.bookings
              ELSE LET out == Outcome(method, pattern, header, NoParam, PriceBody(0)) IN
                      /\ resp' = out.resp
                      /\ bookings' = out.bookings
        /\ UNCHANGED <<users, now, gateKey, storeUp, resetTokens, calls>>

\* a request while the collection holds at most MaxBookings bookings
Request(method, pattern, header) == RequestUpTo(method, pattern, header, MaxBookings)

PostBookings == \E header \in Headers : Request("POST", "/bookings", header)
GetBookings == \E header \in Headers : Request("GET", "/bookings", header)
GetBookingsPending == \E header \in Headers : Request("GET", "/bookings/pending", header)
GetBooking == \E header \in Headers : Request("GET", "/bookings/{bookingID}", header)
PutAccept == \E header \in Headers : Request("PUT", "/bookings/{bookingID}/accept", header)
PutReject == \E header \in Headers : Request("PUT", "/bookings/{bookingID}/reject", header)
PutComplete == \E header \in Headers : Request("PUT", "/bookings/{bookingID}/complete", header)
PutCancel == \E header \in Headers : Request("PUT", "/bookings/{bookingID}/cancel", header)

\* time passes
Tick ==
    /\ now + ClockStep <= MaxTime
    /\ now' = now + ClockStep
    /\ UNCHANGED <<users, bookings, gateKey, storeUp, resetTokens, calls, resp>>

\* the bookings collection stops answering (the connection drops, a call
\* times out)
StoreFails ==
    /\ storeUp
    /\ storeUp' = FALSE
    /\ UNCHANGED <<users, bookings, now, gateKey, resetTokens, calls, resp>>

\* the bookings collection answers again
StoreRecovers ==
    /\ ~storeUp
    /\ storeUp' = TRUE
    /\ UNCHANGED <<users, bookings, now, gateKey, resetTokens, calls, resp>>

RegisterLifecycle == \E body \in RegInputs : PostRegister(body)
RegisterToken == \E body \in RegInputsToken : PostRegister(body)
PostAuthLogin == \E body \in LoginInputs : PostLogin(body)

Next ==
    \/ RegisterLifecycle
    \/ PostAuthLogin
    \/ PostBookings
    \/ GetBookings
    \/ GetBookingsPending
    \/ GetBooking
    \/ PutAccept
    \/ PutReject
    \/ PutComplete
    \/ PutCancel

Spec == Init /\ [][Next]_vars

NextToken ==
    \/ RegisterToken
    \/ PostAuthLogin
    \/ Tick
    \/ PostBookings
    \/ GetBookings
    \/ GetBookingsPending
    \/ GetBooking
    \/ PutAccept
    \/ PutReject
    \/ PutComplete
    \/ PutCancel

SpecToken == Init /\ [][NextToken]_vars

----------------------------------------------------------------------------
(* Requests that overlap: a handler's read of the store and its write are
   separate steps, and other requests run between them; the response follows
   the write with no access to the store between *)

\* the body of a call that has none
NoBody == RegisterBody("", "", "")

\* a request in flight, between the checks on what it read and its write: the
\* handler it is in, the context the gate attached, the booking ID and price
\* or the registration body it carries, and the response it sends when its
\* write returns no error
Call(handler, ctx, id, price, body, r) ==
    [handler |-> handler, ctx |-> ctx, id |-> id, price |-> price, body |-> body,
     resp |-> r]

\* the $set document the service builds once its checks have passed
SetOf(c, t) ==
    CASE c.handler = "AcceptBooking" ->
            [mowerId |-> c.ctx.userID, status |-> "accepted", updatedAt |-> t]
      [] c.handler = "RejectBooking" -> [status |-> "rejected", updatedAt |-> t]
      [] c.handler = "CompleteBooking" ->
            [status |-> "completed", price |-> c.price, updatedAt |-> t]
      [] c.handler = "CancelBooking" -> [status |-> "cancelled", updatedAt |-> t]

\* the service's UpdateBooking call, on the collection as it is by then
Written(bs, c, t) == UpdateBooking(bs, c.id, SetOf(c, t))

\* the handler's answer when UpdateBooking returns an error
WriteFailed(c) ==
    CASE c.handler = "AcceptBooking" ->
            Response(500, "Failed to accept booking", c.handler, c.ctx,
                     Errorf("service failed to accept booking"))
      [] c.handler = "RejectBooking" ->
            Response(500, "Failed to reject booking", c.handler, c.ctx,
                     Errorf("service failed to reject booking"))
      [] c.handler = "CompleteBooking" ->
            Response(500, "Failed to complete booking", c.handler, c.ctx,
                     Errorf("service failed to complete booking"))
      [] c.handler = "CancelBooking" ->
            Response(500, "Failed to cancel booking", c.handler, c.ctx,
                     Errorf("service failed to cancel booking"))

\* a transition request up to the end of its checks: the middlewares, the
\* handler's parsing and the service's FindBookingByID and checks.  A request
\* that fails one of them is answered at once and writes nothing; one that
\* passes them all is in flight, its UpdateBooking still to come.
BeginCall(method, pattern, header) ==
    LET route == Resolve(method, pattern)
        a == AuthMiddleware(header)
    IN  /\ IF a.ok /\ RoleMiddleware(route.role, a.ctx)
              THEN \E param \in ParamsOf(route.handler), body \in BodiesOf(route.handler) :
                      LET out == Outcome(method, pattern, header, param, body) IN
                      IF out.resp.code = 200
                          THEN /\ Cardinality(calls) < MaxCalls
                               /\ calls' = calls \cup
                                    { Call(route.handler, out.resp.ctx, param.oid, body.price,
                                           NoBody, out.resp) }
                               /\ resp' = resp
                          ELSE /\ resp' = out.resp
                               /\ calls' = calls
              ELSE /\ resp' = Outcome(method, pattern, header, NoParam, PriceBody(0)).resp
                   /\ calls' = calls
        /\ UNCHANGED <<users, bookings, now, gateKey, storeUp, resetTokens>>

\* the headers of the overlapping requests: every token a login has returned
RaceHeaders == { <<"Bearer", tok>> : tok \in Issued }

BeginAccept ==
    \E header \in RaceHeaders : BeginCall("PUT", "/bookings/{bookingID}/accept", header)
BeginReject ==
    \E header \in RaceHeaders : BeginCall("PUT", "/bookings/{bookingID}/reject", header)
BeginComplete ==
    \E header \in RaceHeaders : BeginCall("PUT", "/bookings/{bookingID}/complete", header)
BeginCancel ==
    \E header \in RaceHeaders : BeginCall("PUT", "/bookings/{bookingID}/cancel", header)

\* POST /bookings has one access to the store, its InsertOne
RacePostBookings == \E header \in RaceHeaders : Request("POST", "/bookings", header)

\* the UpdateBooking call of a request in flight, and the handler's response
WriteCall ==
    \E c \in calls :
        /\ c.handler # "Register"
        /\ IF storeUp
              THEN /\ bookings' = Written(bookings, c, now)
                   /\ resp' = c.resp
              ELSE /\ bookings' = bookings
                   /\ resp' = WriteFailed(c)
        /\ calls' = calls \ {c}
        /\ UNCHANGED <<users, now, gateKey, storeUp, resetTokens>>

\* registration requests of the specification of overlapping booking requests
RegInputsRace ==
    { RegisterBody("alice", "pw", "customer"), RegisterBody("mia", "pw", "mower"),
      RegisterBody("max", "pw", "mower") }

RegisterRace == \E body \in RegInputsRace : PostRegister(body)

\* booking requests that overlap
NextRace ==
    \/ RegisterRace
    \/ RacePostBookings
    \/ BeginAccept
    \/ BeginReject
    \/ BeginComplete
    \/ BeginCancel
    \/ WriteCall

SpecRace == Init /\ [][NextRace]_vars

\* requests of the other operations that overlap with no other request
RacePutReject ==
    \E header \in RaceHeaders : Request("PUT", "/bookings/{bookingID}/reject", header)
RacePutComplete ==
    \E header \in RaceHeaders : Request("PUT", "/bookings/{bookingID}/complete", header)
RacePutCancel ==
    \E header \in RaceHeaders : Request("PUT", "/bookings/{bookingID}/cancel", header)

\* Accept requests that overlap with each other and with the requests of the
\* other operations
NextAccept ==
    \/ RegisterRace
    \/ RacePostBookings
    \/ BeginAccept
    \/ WriteCall
    \/ RacePutReject
    \/ RacePutComplete
    \/ RacePutCancel

SpecAccept == Init /\ [][NextAccept]_vars

\* primitive.NewObjectID: an ID no stored user has
NewObjectID(us, email) == UserOID[email] + 100 * Cardinality({ u \in us : u.email = email })

\* userRepository.CreateUser: InsertOne
CreateUser(us, user) == us \cup {user}

\* a registration up to the end of its lookup: the handler's role check and
\* the service's FindUserByEmail.  A request that fails one of them is
\* answered at once; one that passes is in flight, its InsertOne still to come.
BeginRegister ==
    \E body \in RegInputsAuth :
        LET out == AuthHandler_Register(users, body, now) IN
        /\ IF out.resp.code = 201
              THEN /\ Cardinality(calls) < MaxCalls
                   /\ calls' = calls \cup
                        { Call("Register", NoCtx, NilObjectID, 0, body, out.resp) }
                   /\ resp' = resp
              ELSE /\ resp' = out.resp
                   /\ calls' = calls
        /\ UNCHANGED <<users, bookings, now, gateKey, storeUp, resetTokens>>

\* the CreateUser call of a registration in flight, and the handler's response
InsertUser ==
    \E c \in calls :
        /\ c.handler = "Register"
        /\ users' = CreateUser(users,
                       [id |-> NewObjectID(users, c.body.email), email |-> c.body.email,
                        password |-> GenerateFromPassword(c.body.password),
                        role |-> c.body.role, createdAt |-> now])
        /\ Cardinality(users') <= MaxUsers
        /\ resp' = c.resp
        /\ calls' = calls \ {c}
        /\ UNCHANGED <<bookings, now, gateKey, storeUp, resetTokens>>

\* registration requests that overlap
NextRegister ==
    \/ BeginRegister
    \/ InsertUser

SpecRegister == Init /\ [][NextRegister]_vars

\* the booking requests that write, while the collection holds at most
\* MaxFrameBookings bookings
FramePostBookings ==
    \E header \in Headers : RequestUpTo("POST", "/bookings", header, MaxFrameBookings)
FramePutAccept ==
    \E header \in Headers :
        RequestUpTo("PUT", "/bookings/{bookingID}/accept", header, MaxFrameBookings)
FramePutReject ==
    \E header \in Headers :
        RequestUpTo("PUT", "/bookings/{bookingID}/reject", header, MaxFrameBookings)
FramePutComplete ==
    \E header \in Headers :
        RequestUpTo("PUT", "/bookings/{bookingID}/complete", header, MaxFrameBookings)
FramePutCancel ==
    \E header \in Headers :
        RequestUpTo("PUT", "/bookings/{bookingID}/cancel", header, MaxFrameBookings)

\* the writing requests of two users on several bookings
NextFrame ==
    \/ RegisterToken
    \/ FramePostBookings
    \/ FramePutAccept
    \/ FramePutReject
    \/ FramePutComplete
    \/ FramePutCancel

SpecFrame == Init /\ [][NextFrame]_vars

RegisterAuth == \E body \in RegInputsAuth : PostRegister(body)

\* the public authentication routes
NextAuth ==
    \/ RegisterAuth
    \/ PostAuthLogin
    \/ PostForgotPassword

SpecAuth == Init /\ [][NextAuth]_vars

\* the requests of two users against a store that can fail
NextStore ==
    \/ RegisterToken
    \/ PostAuthLogin
    \/ StoreFails
    \/ StoreRecovers
    \/ PostBookings
    \/ GetBookings
    \/ GetBookingsPending
    \/ GetBooking
    \/ PutAccept
    \/ PutReject
    \/ PutComplete
    \/ PutCancel

SpecStore == Init /\ [][NextStore]_vars

----------------------------------------------------------------------------
(* Vocabulary of the properties *)

Endpoints ==
    { <<"POST", "/bookings">>, <<"GET", "/bookings">>, <<"GET", "/bookings/pending">>,
      <<"GET", "/bookings/{bookingID}">>, <<"PUT", "/bookings/{bookingID}/accept">>,
      <<"PUT", "/bookings/{bookingID}/reject">>, <<"PUT", "/bookings/{bookingID}/complete">>,
      <<"PUT", "/bookings/{bookingID}/cancel">> }

\* the header a client sends with a token it holds
Bearer(tok) == <<"Bearer", tok>>

\* the token is signed by the issuer for the gate's key and has not expired
Presentable(tok) ==
    /\ tok.wellformed
    /\ tok.sig = HS256(gateKey, tok.claims)
    /\ now < tok.claims.exp

LegalEdges ==
    { <<"pending", "accepted">>, <<"pending", "rejected">>, <<"pending", "cancelled">>,
      <<"accepted", "completed">>, <<"accepted", "cancelled">> }

Terminal == {"completed", "cancelled", "rejected"}

HoldsMower == {"accepted", "ongoing", "completed"}

----------------------------------------------------------------------------
(* C1 *)

\* C1: every change of a stored booking's status follows one of the edges
\* pending->accepted, pending->rejected, pending->cancelled,
\* accepted->completed, accepted->cancelled; a booking whose status is
\* completed, cancelled or rejected never changes status again.
C1_StatusEdges ==
    [][\A b \in DOMAIN bookings :
          /\ b \in DOMAIN bookings'
          /\ bookings'[b].status # bookings[b].status
                => <<bookings[b].status, bookings'[b].status>> \in LegalEdges
          /\ bookings[b].status \in Terminal
                => bookings'[b].status = bookings[b].status]_vars

\* a completed booking on which a Cancel was then attempted
C1_Witness ==
    /\ \E b \in DOMAIN bookings : bookings[b].status = "completed"
    /\ resp.handler = "CancelBooking"
    /\ resp.code # 200

----------------------------------------------------------------------------
(* C2 *)

\* C2 as stated: a booking's mowerID is set if and only if its status is
\* accepted, ongoing or completed.
C2_MowerIffHeld ==
    \A b \in DOMAIN bookings :
        bookings[b].mowerId # NilObjectID <=> bookings[b].status \in HoldsMower

\* C2 amended: mowerID is set whenever the status is accepted, ongoing or
\* completed and unset whenever it is pending or rejected; Cancel leaves
\* mowerID as it was, so a booking cancelled after being accepted keeps the
\* accepting mower's ID.
C2_MowerKeptOnCancel ==
    [][\A b \in DOMAIN bookings' :
          /\ bookings'[b].status \in HoldsMower => bookings'[b].mowerId # NilObjectID
          /\ bookings'[b].status \in {"pending", "rejected"}
                => bookings'[b].mowerId = NilObjectID
          /\ (b \in DOMAIN bookings /\ bookings'[b].status = "cancelled")
                => bookings'[b].mowerId = bookings[b].mowerId]_vars

\* a booking cancelled after it was accepted: cancelled, mowerID still set
C2_Witness ==
    /\ \E b \in DOMAIN bookings :
          bookings[b].status = "cancelled" /\ bookings[b].mowerId # NilObjectID
    /\ resp.handler = "CancelBooking"
    /\ resp.code = 200

----------------------------------------------------------------------------
(* C3 *)

\* C3: a booking goes from accepted to completed only in a request made by
\* the mower stored as its mowerID; so only the assigned mower sets the price.
C3_OnlyAssignedMowerCompletes ==
    [][\A b \in DOMAIN bookings :
          (bookings[b].status = "accepted" /\ bookings'[b].status = "completed")
              => resp'.ctx.userID = bookings[b].mowerId]_vars

----------------------------------------------------------------------------
(* C4 *)

\* C4: once a mower's Accept has assigned a booking, an Accept by a different
\* mower is answered 409 with the Conflict error and the mowerID stays.
C4_SecondAcceptConflict ==
    \A b \in DOMAIN bookings : \A tok \in Issued :
        ( /\ Presentable(tok)
          /\ tok.claims.role = "mower"
          /\ bookings[b].status = "accepted"
          /\ bookings[b].mowerId # NilObjectID
          /\ bookings[b].mowerId # tok.claims.userId )
        => LET out == Outcome("PUT", "/bookings/{bookingID}/accept", Bearer(tok),
                              Param(b), PriceBody(0))
           IN  /\ out.resp.code = 409
               /\ out.resp.err.type = "CustomError"
               /\ out.bookings[b].mowerId = bookings[b].mowerId

----------------------------------------------------------------------------
(* C5 *)

\* C5: a token minted by Login, presented before its expiry, passes the gate
\* and puts the user ID and role it was minted for in the request context.
C5_TokenRoundTrip ==
    \A tok \in Issued :
        now < tok.claims.exp
        => LET a == AuthMiddleware(Bearer(tok)) IN
           /\ a.ok
           /\ a.ctx = [userID |-> tok.claims.userId, role |-> tok.claims.role]

----------------------------------------------------------------------------
(* C6 *)

\* C6: with a token that passes the gate, of either role, GET /bookings
\* reaches ListBookings and GET /bookings/{id} reaches GetBookingByID.
C6_GetRoutesBothRoles ==
    \A tok \in Issued : \A param \in Params :
        (Presentable(tok) /\ tok.claims.role \in Roles)
        => /\ Outcome("GET", "/bookings", Bearer(tok), NoParam, PriceBody(0)).resp.handler
                = "ListBookings"
           /\ Outcome("GET", "/bookings/{bookingID}", Bearer(tok), param, PriceBody(0)).resp.handler
                = "GetBookingByID"

----------------------------------------------------------------------------
(* C7 *)

MowerEndpoints ==
    { <<"GET", "/bookings/pending">>, <<"PUT", "/bookings/{bookingID}/accept">>,
      <<"PUT", "/bookings/{bookingID}/reject">>, <<"PUT", "/bookings/{bookingID}/complete">> }

CustomerEndpoints ==
    { <<"POST", "/bookings">>, <<"PUT", "/bookings/{bookingID}/cancel">> }

\* the role the interface table requires of an endpoint served to one role
RequiredRole(ep) == IF ep \in MowerEndpoints THEN "mower" ELSE "customer"

\* C7: a request with a valid token of another role than its route requires
\* is answered 403 and enters no business handler; Accept, Reject, Complete
\* and ListPending only ever run with a mower's token, Create and Cancel only
\* with a customer's.
C7_RoleGate ==
    /\ \A ep \in MowerEndpoints \cup CustomerEndpoints : \A tok \in Issued :
          (Presentable(tok) /\ tok.claims.role # RequiredRole(ep))
          => \A param \in ParamsOf(Resolve(ep[1], ep[2]).handler) :
             \A body \in BodiesOf(Resolve(ep[1], ep[2]).handler) :
                LET out == Outcome(ep[1], ep[2], Bearer(tok), param, body) IN
                /\ out.resp.code = 403
                /\ out.resp.handler = "none"
                /\ out.bookings = bookings
    /\ resp.handler \in {"AcceptBooking", "RejectBooking", "CompleteBooking",
                         "ListPendingBookings"} => resp.ctx.role = "mower"
    /\ resp.handler \in {"CreateBooking", "CancelBooking"} => resp.ctx.role = "customer"

\* a customer's valid token was turned away from a mower route while a
\* booking waits to be accepted
C7_Witness ==
    /\ resp.code = 403
    /\ resp.handler = "none"
    /\ resp.ctx.role = "customer"
    /\ \E b \in DOMAIN bookings : bookings[b].status = "pending"

----------------------------------------------------------------------------
(* C8 *)

\* the header has no 'Bearer <token>' form
NotBearerForm(header) ==
    \/ Len(header) # 2
    \/ header[1] # "Bearer"

\* the token's signature is not the gate key's signature of its claims
InvalidSignature(tok) == tok.sig # HS256(gateKey, tok.claims)

\* the token was issued more than 24 hours ago
IssuedOver24hAgo(tok) == now - tok.claims.iat > 24

Unauthenticated(header) ==
    \/ NotBearerForm(header)
    \/ InvalidSignature(header[2])
    \/ IssuedOver24hAgo(header[2])

\* C8: a request to a protected endpoint whose Authorization header is
\* missing, is not 'Bearer <token>', carries a token with an invalid
\* signature or a token issued more than 24 hours earlier is answered 401,
\* enters no business handler and leaves the bookings as they are.
C8_Unauthenticated401 ==
    \A ep \in Endpoints : \A header \in Headers :
        Unauthenticated(header)
        => \A param \in ParamsOf(Resolve(ep[1], ep[2]).handler) :
           \A body \in BodiesOf(Resolve(ep[1], ep[2]).handler) :
              LET out == Outcome(ep[1], ep[2], header, param, body) IN
              /\ out.resp.code = 401
              /\ out.resp.handler = "none"
              /\ out.bookings = bookings

\* a token the gate's key verifies was refused because it had expired, with
\* a booking in the store
C8_Witness ==
    /\ resp.code = 401
    /\ resp.handler = "none"
    /\ resp.err = JwtError("ErrTokenExpired")
    /\ \E tok \in Issued : ~InvalidSignature(tok) /\ IssuedOver24hAgo(tok)
    /\ Len(bookings) > 0

----------------------------------------------------------------------------
(* C9 *)

MsgNotOwner == "Unauthorized to cancel this booking"

\* C9: Cancel by a customer who is not the booking's customer is answered
\* 403 with the ownership error, whatever the booking's status, and changes
\* nothing.
C9_NotOwnerForbidden ==
    \A b \in DOMAIN bookings : \A tok \in Issued :
        ( /\ Presentable(tok)
          /\ tok.claims.role = "customer"
          /\ tok.claims.userId # bookings[b].customerId )
        => LET out == Outcome("PUT", "/bookings/{bookingID}/cancel", Bearer(tok),
                              Param(b), PriceBody(0))
           IN  /\ out.resp.code = 403
               /\ out.resp.err = CustomError(MsgNotOwner)
               /\ out.bookings = bookings

----------------------------------------------------------------------------
(* C10 *)

\* C10: Cancel by the owning customer on a completed, cancelled or rejected
\* booking is answered 409, not the 403 of the not-owner case, and the
\* status stays.
C10_WrongStateConflict ==
    \A b \in DOMAIN bookings : \A tok \in Issued :
        ( /\ Presentable(tok)
          /\ tok.claims.role = "customer"
          /\ tok.claims.userId = bookings[b].customerId
          /\ bookings[b].status \in Terminal )
        => LET out == Outcome("PUT", "/bookings/{bookingID}/cancel", Bearer(tok),
                              Param(b), PriceBody(0))
           IN  /\ out.resp.code = 409
               /\ out.bookings[b].status = bookings[b].status


----------------------------------------------------------------------------
(* C11 *)

\* the IDs of the stored users
UserIDs == { u.id : u \in users }

\* every stored booking ID and one that is not stored
BookingIDs == 1..(MaxBookings + 1)

TransitionEndpoints ==
    { <<"PUT", "/bookings/{bookingID}/accept">>, <<"PUT", "/bookings/{bookingID}/reject">>,
      <<"PUT", "/bookings/{bookingID}/complete">>, <<"PUT", "/bookings/{bookingID}/cancel">> }

\* C11: an Accept, Reject, Complete or Cancel that returns an error (wrong
\* state, conflict, forbidden, invalid input, not found) leaves every stored
\* booking as it was, in the service call and in the request that made it.
C11_FailedCallNoWrite ==
    /\ \A id \in BookingIDs : \A caller \in UserIDs : \A price \in Prices :
          \A r \in { AcceptBooking(bookings, id, caller, now),
                     RejectBooking(bookings, id, caller, now),
                     CompleteBooking(bookings, id, price, now),
                     CancelBooking(bookings, id, caller, now) } :
              r.err # NoErr => r.bookings = bookings
    /\ \A ep \in TransitionEndpoints : \A tok \in Issued :
          Presentable(tok)
          => \A param \in ParamsOf(Resolve(ep[1], ep[2]).handler) :
             \A body \in BodiesOf(Resolve(ep[1], ep[2]).handler) :
                LET out == Outcome(ep[1], ep[2], Bearer(tok), param, body) IN
                out.resp.code # 200 => out.bookings = bookings

\* an Accept was refused on a booking that is already accepted
C11_Witness ==
    /\ \E b \in DOMAIN bookings : bookings[b].status = "accepted"
    /\ resp.handler = "AcceptBooking"
    /\ resp.err = ErrorsNew("booking is not pending and cannot be accepted")


----------------------------------------------------------------------------
(* C12 *)

\* C12: an Accept by a mower on a pending booking with no mower succeeds and
\* leaves the booking accepted, with the caller as mowerID and acceptedTime
\* set.
C12_AcceptSetsAcceptedTime ==
    [][\A b \in DOMAIN bookings : \A tok \in Issued :
          \* the request is mower tok's Accept on pending booking b
          ( /\ Presentable(tok)
            /\ tok.claims.role = "mower"
            /\ bookings[b].status = "pending"
            /\ bookings[b].mowerId = NilObjectID
            /\ LET out == Outcome("PUT", "/bookings/{bookingID}/accept", Bearer(tok),
                                  Param(b), PriceBody(0))
               IN  resp' = out.resp /\ bookings' = out.bookings )
          => /\ resp'.code = 200
             /\ bookings'[b].status = "accepted"
             /\ bookings'[b].mowerId = tok.claims.userId
             /\ bookings'[b].acceptedTime # NoTime]_vars

----------------------------------------------------------------------------
(* C13 *)

\* C13: a Complete with a price above zero on an accepted booking succeeds
\* and leaves the booking completed, with that price, billingStatus paid and
\* completedTime set.
C13_CompleteSetsBilling ==
    [][\A b \in DOMAIN bookings : \A tok \in Issued : \A price \in Prices :
          ( /\ Presentable(tok)
            /\ tok.claims.role = "mower"
            /\ price > 0
            /\ bookings[b].status = "accepted"
            /\ LET out == Outcome("PUT", "/bookings/{bookingID}/complete", Bearer(tok),
                                  Param(b), PriceBody(price))
               IN  resp' = out.resp /\ bookings' = out.bookings )
          => /\ resp'.code = 200
             /\ bookings'[b].status = "completed"
             /\ bookings'[b].price = price
             /\ bookings'[b].billingStatus = "paid"
             /\ bookings'[b].completedTime # NoTime]_vars


----------------------------------------------------------------------------
(* C14 *)

MsgPrice == "Price must be a positive number"

\* C14: a Complete with a price of zero or less is refused as invalid input
\* (400, the price message) whatever the booking's status, the price being
\* looked at before the status, and the booking stays as it was.
C14_PriceCheckedFirst ==
    \A b \in DOMAIN bookings : \A tok \in Issued : \A price \in Prices :
        (Presentable(tok) /\ tok.claims.role = "mower" /\ price <= 0)
        => LET out == Outcome("PUT", "/bookings/{bookingID}/complete", Bearer(tok),
                              Param(b), PriceBody(price))
           IN  /\ out.resp.code = 400
               /\ out.resp.message = MsgPrice
               /\ out.bookings = bookings

\* the price was refused on a booking whose status also forbids Complete
C14_Witness ==
    /\ \E b \in DOMAIN bookings : bookings[b].status # "accepted"
    /\ resp.handler = "CompleteBooking"
    /\ resp.code = 400
    /\ resp.message = MsgPrice

----------------------------------------------------------------------------
(* C15 *)

----------------------------------------------------------------------------
(* C16 *)

BillingStatuses == {"pending", "billed", "paid"}

\* C16: every stored booking's billingStatus is one of pending, billed and
\* paid, from its creation on, and is paid only when the status is completed.
C16_BillingStatusValues ==
    \A b \in DOMAIN bookings :
        /\ bookings[b].billingStatus \in BillingStatuses
        /\ bookings[b].billingStatus = "paid" => bookings[b].status = "completed"

----------------------------------------------------------------------------
(* C17 *)

\* C17: a Cancel by the booking's customer on a pending or accepted booking
\* succeeds and leaves it cancelled; a booking becomes cancelled only in a
\* Cancel request made by the customer whose ID is its customerID.
C17_OwnerCancels ==
    /\ [](\A b \in DOMAIN bookings : \A tok \in Issued :
             ( /\ Presentable(tok)
               /\ tok.claims.role = "customer"
               /\ tok.claims.userId = bookings[b].customerId
               /\ bookings[b].status \in {"pending", "accepted"} )
             => LET out == Outcome("PUT", "/bookings/{bookingID}/cancel", Bearer(tok),
                                   Param(b), PriceBody(0))
                IN  /\ out.resp.code = 200
                    /\ out.bookings[b].status = "cancelled")
    /\ [][\A b \in DOMAIN bookings' :
             ( /\ bookings'[b].status = "cancelled"
               /\ (b \in DOMAIN bookings => bookings[b].status # "cancelled") )
             => /\ b \in DOMAIN bookings
                /\ resp'.handler = "CancelBooking"
                /\ resp'.code = 200
                /\ resp'.ctx = [userID |-> bookings[b].customerId, role |-> "customer"]]_vars

\* the owner has just cancelled a booking while another customer is registered
C17_Witness ==
    /\ \E b \in DOMAIN bookings :
          /\ bookings[b].status = "cancelled"
          /\ resp.ctx.userID = bookings[b].customerId
          /\ \E u \in users : u.role = "customer" /\ u.id # bookings[b].customerId
    /\ resp.handler = "CancelBooking"
    /\ resp.code = 200


----------------------------------------------------------------------------
(* C18 *)

\* the error RejectBooking returns for a booking that is not pending
ErrRejectNotPending == ErrorsNew("booking is not pending and cannot be rejected")

\* C18: a Reject by a mower on a pending booking succeeds and leaves it
\* rejected with no mowerID; a Reject on a booking of any other status fails
\* with the wrong-state error and changes nothing.
C18_RejectPendingOnly ==
    \A b \in DOMAIN bookings : \A tok \in Issued :
        (Presentable(tok) /\ tok.claims.role = "mower")
        => LET out == Outcome("PUT", "/bookings/{bookingID}/reject", Bearer(tok),
                              Param(b), PriceBody(0))
               r == RejectBooking(bookings, b, tok.claims.userId, now)
           IN  IF bookings[b].status = "pending"
                   THEN /\ r.err = NoErr
                        /\ out.resp.code = 200
                        /\ out.bookings[b].status = "rejected"
                        /\ out.bookings[b].mowerId = NilObjectID
                   ELSE /\ r.err = ErrRejectNotPending
                        /\ r.bookings = bookings
                        /\ out.resp.code # 200
                        /\ out.resp.err = ErrRejectNotPending
                        /\ out.bookings = bookings

\* a Reject was refused on a booking that a Reject had already rejected
C18_Witness ==
    /\ \E b \in DOMAIN bookings :
          bookings[b].status = "rejected" /\ bookings[b].mowerId = NilObjectID
    /\ resp.handler = "RejectBooking"
    /\ resp.err = ErrRejectNotPending

----------------------------------------------------------------------------
(* C19 *)

\* C19: a booking is stored only by a successful Create, one at a time, with
\* status pending, no mowerID, price 0 and the customerID the gate took from
\* a customer's verified token; the bookings stored before stay as they were.
C19_CreateStoresPending ==
    [][Len(bookings') > Len(bookings)
          => LET n == Len(bookings') IN
             /\ n = Len(bookings) + 1
             /\ \A b \in DOMAIN bookings : bookings'[b] = bookings[b]
             /\ bookings'[n].status = "pending"
             /\ bookings'[n].mowerId = NilObjectID
             /\ bookings'[n].price = 0
             /\ resp'.handler = "CreateBooking"
             /\ resp'.code = 201
             /\ bookings'[n].customerId = resp'.ctx.userID
             /\ \E tok \in Issued :
                   /\ Presentable(tok)
                   /\ tok.claims.role = "customer"
                   /\ tok.claims.userId = bookings'[n].customerId
                   /\ AuthMiddleware(Bearer(tok)).ctx = resp'.ctx]_vars

\* a Create has just stored a booking for one of two registered customers
C19_Witness ==
    /\ Len(bookings) > 0
    /\ \E u \in users : u.role = "customer" /\ u.id # resp.ctx.userID
    /\ bookings[Len(bookings)].status = "pending"
    /\ bookings[Len(bookings)].customerId = resp.ctx.userID
    /\ resp.ctx.userID # NilObjectID
    /\ resp.handler = "CreateBooking"
    /\ resp.code = 201

----------------------------------------------------------------------------
(* C20 *)

\* Create bodies with one of date, time, address and description empty
EmptyFieldBodies ==
    { CreateBody("", "10:00", "1 Main St", "front lawn"),
      CreateBody("2024-05-01", "", "1 Main St", "front lawn"),
      CreateBody("2024-05-01", "10:00", "", "front lawn"),
      CreateBody("2024-05-01", "10:00", "1 Main St", "") }

\* C20: a Create whose date, time, address or description is empty is
\* answered 400 and stores no booking.
C20_EmptyFieldRejected400 ==
    \A tok \in Issued : \A body \in EmptyFieldBodies :
        (Presentable(tok) /\ tok.claims.role = "customer")
        => LET out == Outcome("POST", "/bookings", Bearer(tok), NoParam, body) IN
           /\ out.resp.code = 400
           /\ out.bookings = bookings


----------------------------------------------------------------------------
(* C26 *)

\* the request context of a stored user
CtxOf(u) == [userID |-> u.id, role |-> u.role]

\* C26: Get with the ID of a stored booking returns that booking; with an ID
\* no booking has it fails with NotFound, answered 404; when the store fails
\* it fails with an error that is not NotFound, answered 500.
C26_GetFoundNotFoundInternal ==
    \A id \in BookingIDs : \A u \in users :
        LET r == GetBookingByID(bookings, id)
            out == BookingHandler_GetBookingByID(bookings, CtxOf(u), Param(id))
        IN  /\ (storeUp /\ id \in DOMAIN bookings)
                => /\ r.err = NoErr /\ r.booking = bookings[id]
                   /\ out.resp.code = 200
                   /\ out.data = [id |-> id, booking |-> bookings[id]]
            /\ (storeUp /\ id \notin DOMAIN bookings)
                => /\ r.err = NotFound("Booking")
                   /\ out.resp.code = 404
            /\ ~storeUp
                => /\ r.err # NoErr /\ r.err.type # "NotFound"
                   /\ out.resp.code = 500

\* a Get of a stored booking was answered 500 while the store was failing
C26_Witness ==
    /\ ~storeUp
    /\ Len(bookings) > 0
    /\ resp.handler = "GetBookingByID"
    /\ resp.code = 500
    /\ resp.err = Errorf("service failed to get booking")

----------------------------------------------------------------------------
(* C27 *)

\* the IDs of the documents of a query result
ListedIDs(list) == { list[k].id : k \in DOMAIN list }

\* every listed document is the stored one and is listed once
ListedAsStored(list) ==
    /\ \A k \in DOMAIN list :
          list[k].id \in DOMAIN bookings /\ list[k].booking = bookings[list[k].id]
    /\ Cardinality(ListedIDs(list)) = Len(list)

\* C27: ListForUser(userID) returns exactly the stored bookings whose
\* customerID or mowerID is userID.
C27_ListForUserExact ==
    \A u \in users :
        storeUp
        => LET r == ListBookings(bookings, u.id)
               out == BookingHandler_ListBookings(bookings, CtxOf(u))
           IN  /\ r.err = NoErr
               /\ ListedAsStored(r.list)
               /\ ListedIDs(r.list)
                    = { b \in DOMAIN bookings : \/ bookings[b].customerId = u.id
                                                \/ bookings[b].mowerId = u.id }
               /\ out.resp.code = 200
               /\ out.data = r.list

\* a mower listed its bookings while holding one
C27_Witness ==
    /\ \E b \in DOMAIN bookings : bookings[b].mowerId = resp.ctx.userID
    /\ resp.handler = "ListBookings"
    /\ resp.code = 200

----------------------------------------------------------------------------
(* C28 *)

\* C28: ListPending() returns exactly the stored bookings whose status is
\* pending.
C28_ListPendingExact ==
    storeUp
    => LET r == ListPendingBookings(bookings) IN
       /\ r.err = NoErr
       /\ ListedAsStored(r.list)
       /\ ListedIDs(r.list) = { b \in DOMAIN bookings : bookings[b].status = "pending" }
       /\ \A u \in users :
             LET out == BookingHandler_ListPendingBookings(bookings, CtxOf(u)) IN
             out.resp.code = 200 /\ out.data = r.list

\* the pending bookings were listed after a booking had stopped being pending
C28_Witness ==
    /\ \E b \in DOMAIN bookings : bookings[b].status \in {"accepted", "rejected", "cancelled"}
    /\ resp.handler = "ListPendingBookings"
    /\ resp.code = 200


----------------------------------------------------------------------------
(* C29 *)

MsgOtherMower == "This booking has already been accepted by another mower"

\* C29: when the mower who holds an accepted booking calls Accept on it
\* again, the booking keeps its status and mowerID and the call is not
\* reported as a conflict with another mower.
C29_SameMowerAcceptAgain ==
    \A b \in DOMAIN bookings : \A tok \in Issued :
        ( /\ Presentable(tok)
          /\ tok.claims.role = "mower"
          /\ bookings[b].status = "accepted"
          /\ bookings[b].mowerId = tok.claims.userId )
        => LET out == Outcome("PUT", "/bookings/{bookingID}/accept", Bearer(tok),
                              Param(b), PriceBody(0))
           IN  /\ out.bookings[b].status = "accepted"
               /\ out.bookings[b].mowerId = tok.claims.userId
               /\ out.bookings = bookings
               /\ out.resp.code # 409
               /\ out.resp.message # MsgOtherMower
               /\ out.resp.err # CustomError(MsgOtherMower)

\* the mower holding an accepted booking has called Accept on it again
C29_Witness ==
    /\ storeUp
    /\ \E b \in DOMAIN bookings :
          bookings[b].status = "accepted" /\ bookings[b].mowerId = resp.ctx.userID
    /\ resp.handler = "AcceptBooking"
    /\ resp.err = ErrorsNew("booking is not pending and cannot be accepted")

----------------------------------------------------------------------------
(* C21 *)

\* identities and roles a client may write into a body
BodyIDs == { UserOID.alice, UserOID.mia, UserOID.eve }
BodyRoles == { "customer", "mower", "admin" }

\* C21: two requests with the same valid token that differ only in the
\* body's customerId and role fields have the same outcome and act as the
\* token's user with the token's role; a created booking's customer and an
\* accepted booking's mower are the token's user.
C21_IdentityFromTokenOnly ==
    \A tok \in Issued : \A ep \in Endpoints :
        Presentable(tok)
        => \A param \in ParamsOf(Resolve(ep[1], ep[2]).handler) :
           \A body \in BodiesOf(Resolve(ep[1], ep[2]).handler) :
           \A oid \in BodyIDs : \A role \in BodyRoles :
               LET plain == Outcome(ep[1], ep[2], Bearer(tok), param, body)
                   out == Outcome(ep[1], ep[2], Bearer(tok), param,
                                  WithIdentity(body, oid, role))
               IN  /\ out = plain
                   /\ out.resp.ctx = [userID |-> tok.claims.userId, role |-> tok.claims.role]
                   /\ \A b \in DOMAIN out.bookings :
                         IF b \in DOMAIN bookings
                         THEN /\ out.bookings[b].customerId = bookings[b].customerId
                              /\ out.bookings[b].mowerId
                                    \in {bookings[b].mowerId, tok.claims.userId}
                         ELSE /\ out.bookings[b].customerId = tok.claims.userId
                              /\ out.bookings[b].mowerId = NilObjectID

\* a mower's Accept has assigned a booking created by a customer: both
\* identities are those of the tokens presented
C21_Witness ==
    /\ resp.handler = "AcceptBooking"
    /\ resp.code = 200
    /\ resp.ctx.role = "mower"
    /\ \E b \in DOMAIN bookings :
          /\ bookings[b].mowerId = resp.ctx.userID
          /\ bookings[b].customerId # resp.ctx.userID
          /\ \E u \in users : u.id = bookings[b].customerId /\ u.role = "customer"


----------------------------------------------------------------------------
(* C22 *)

EmailTaken(email) == \E u \in users : u.email = email

\* C22: Register with an email of a stored user fails with the Duplicate
\* error, answered 409, and stores no user; no two stored users share an
\* email.
C22_DuplicateEmail ==
    /\ \A u \in users : \A v \in users : u.email = v.email => u = v
    /\ \A body \in RegInputsAuth :
          EmailTaken(body.email)
          => LET r == Register(users, body.name, body.email, body.password, body.role, now)
                 out == AuthHandler_Register(users, body, now)
             IN  /\ r.err.type = "DuplicateError"
                 /\ r.users = users
                 /\ out.users = users
                 /\ body.role \in Roles
                      => out.resp.code = 409 /\ out.resp.err.type = "DuplicateError"

\* a registration was answered 409 while a user with another password or
\* role could have been sent under the same email
C22_Witness ==
    /\ resp.handler = "Register"
    /\ resp.code = 409
    /\ resp.err = DuplicateError("User with this email")
    /\ \E body \in RegInputsAuth : \E u \in users :
          u.email = body.email /\ u.role # body.role /\ body.role \in Roles

----------------------------------------------------------------------------
(* C23 *)

\* C23: Register with a role other than customer or mower is answered 400 and
\* stores no user; no stored user has another role.
C23_InvalidRoleRejected ==
    /\ \A u \in users : u.role \in {"customer", "mower"}
    /\ \A body \in RegInputsAuth :
          body.role \notin {"customer", "mower"}
          => LET out == AuthHandler_Register(users, body, now) IN
             /\ out.resp.code = 400
             /\ out.users = users

\* a registration was answered 400 for its role
C23_Witness ==
    /\ resp.handler = "Register"
    /\ resp.code = 400
    /\ resp.message = "Invalid role specified"
    /\ \E body \in RegInputsAuth :
          body.role \in {"admin", "super_admin"} /\ ~EmailTaken(body.email)

----------------------------------------------------------------------------
(* C24 *)

\* the stored user's credential matches the login request
PasswordMatches(body) ==
    \E u \in users :
        u.email = body.email /\ CompareHashAndPassword(u.password, body.password)

\* C24: a login with an unknown email and a login with a known email and a
\* wrong password have the same outcome, 401 with the same message and no
\* token; a token is returned only when the password matches the stored
\* credential and it carries that user's ID and stored role.
C24_LoginOutcomes ==
    /\ \A b1 \in LoginInputs : \A b2 \in LoginInputs :
          (~EmailTaken(b1.email) /\ EmailTaken(b2.email) /\ ~PasswordMatches(b2))
          => LET o1 == AuthHandler_Login(users, b1, now)
                 o2 == AuthHandler_Login(users, b2, now)
             IN  /\ o1 = o2
                 /\ o1.resp.code = 401
                 /\ o1.resp.err = InvalidLoginCredentials
                 /\ ~o1.token.wellformed
    /\ \A body \in LoginInputs :
          LET out == AuthHandler_Login(users, body, now) IN
          /\ out.token.wellformed <=> PasswordMatches(body)
          /\ out.resp.code = 200 <=> PasswordMatches(body)
          /\ out.token.wellformed
               => \E u \in users :
                     /\ u.email = body.email
                     /\ out.token.claims.userId = u.id
                     /\ out.token.claims.role = u.role

\* a login was answered 401 while one email of the login requests is stored
\* with another password and one is not stored
C24_Witness ==
    /\ resp.handler = "Login"
    /\ resp.code = 401
    /\ \E b1 \in LoginInputs : \E b2 \in LoginInputs :
          ~EmailTaken(b1.email) /\ EmailTaken(b2.email) /\ ~PasswordMatches(b2)

----------------------------------------------------------------------------
(* C25 *)

\* C25: every well-formed forgot-password request is answered 200 with the
\* same message, whether or not the email belongs to a user and whether or
\* not the service call fails.
C25_ForgotPasswordSameResponse ==
    \A b1 \in ForgotBodies : \A b2 \in ForgotBodies :
    \A m1 \in BOOLEAN : \A m2 \in BOOLEAN :
        (~b1.malformed /\ ~b2.malformed)
        => LET o1 == AuthHandler_ForgotPassword(users, resetTokens, b1, m1)
               o2 == AuthHandler_ForgotPassword(users, resetTokens, b2, m2)
           IN  /\ o1.resp.code = 200
               /\ o1.resp.message = MsgForgot
               /\ o2.resp.code = o1.resp.code
               /\ o2.resp.message = o1.resp.message

\* a forgot-password request for an email no user has was answered 200 while
\* another email belongs to a user
C25_Witness ==
    /\ resp.handler = "ForgotPassword"
    /\ resp.code = 200
    /\ resp.err = NotFound("User")
    /\ users # {}


----------------------------------------------------------------------------
(* C30 *)

WriteEndpoints ==
    { <<"POST", "/bookings">>, <<"PUT", "/bookings/{bookingID}/accept">>,
      <<"PUT", "/bookings/{bookingID}/reject">>, <<"PUT", "/bookings/{bookingID}/complete">>,
      <<"PUT", "/bookings/{bookingID}/cancel">> }

\* C30: Create, Accept, Reject, Complete and Cancel answer 500 only when the
\* store itself fails; a business-rule failure is never answered 500.
C30_Only500OnStoreFailure ==
    \A header \in Headers : \A ep \in WriteEndpoints :
        \A param \in ParamsOf(Resolve(ep[1], ep[2]).handler) :
        \A body \in BodiesOf(Resolve(ep[1], ep[2]).handler) :
            Outcome(ep[1], ep[2], header, param, body).resp.code = 500 => ~storeUp


----------------------------------------------------------------------------
(* C35 *)

\* C35: when requests do not overlap, a pending booking has no mowerID, and
\* no Accept or Reject ends in the 'already accepted by another mower'
\* conflict.
C35_PendingHasNoMower ==
    /\ \A b \in DOMAIN bookings :
          bookings[b].status = "pending" => bookings[b].mowerId = NilObjectID
    /\ resp.err # CustomError(MsgOtherMower)
    /\ resp.message # MsgOtherMower

\* with two mowers registered, a mower's Reject of a pending booking went
\* through the conflict check and was not stopped by it
C35_Witness ==
    /\ Cardinality({ u \in users : u.role = "mower" }) >= 2
    /\ resp.handler = "RejectBooking"
    /\ resp.code = 200
    /\ \E b \in DOMAIN bookings :
          bookings[b].status = "rejected" /\ bookings[b].mowerId = NilObjectID

----------------------------------------------------------------------------
(* C36 *)

StatusValues == {"pending", "accepted", "ongoing", "completed", "cancelled", "rejected"}

\* C36: every stored booking's status is one of the six status values, and
\* it is never ongoing.
C36_StatusValuesNeverOngoing ==
    \A b \in DOMAIN bookings :
        /\ bookings[b].status \in StatusValues
        /\ bookings[b].status # "ongoing"

\* a booking was accepted and then completed: it went from accepted to
\* completed with no status between
C36_Witness ==
    /\ resp.handler = "CompleteBooking"
    /\ resp.code = 200
    /\ \E b \in DOMAIN bookings :
          /\ bookings[b].status = "completed"
          /\ bookings[b].status \in StatusValues
          /\ bookings[b].mowerId # NilObjectID


----------------------------------------------------------------------------
(* C31 *)

\* the fields the claim lets an operation change
Changeable(handler) ==
    CASE handler = "AcceptBooking" -> {"status", "mowerId", "acceptedTime", "updatedAt"}
      [] handler = "RejectBooking" -> {"status", "updatedAt"}
      [] handler = "CancelBooking" -> {"status", "updatedAt"}
      [] handler = "CompleteBooking" ->
            {"status", "price", "billingStatus", "completedTime", "updatedAt"}
      [] OTHER -> {}

\* C31: no operation changes a stored booking's customerID, date, time,
\* address or description; Accept, Reject, Cancel and Complete change only
\* the fields listed for them, and only in the booking whose ID they were
\* given.
C31_FrameOfOperations ==
    \A tok \in Issued : \A ep \in WriteEndpoints :
        Presentable(tok)
        => \A param \in ParamsOf(Resolve(ep[1], ep[2]).handler) :
           \A body \in BodiesOf(Resolve(ep[1], ep[2]).handler) :
               LET handler == Resolve(ep[1], ep[2]).handler
                   out == Outcome(ep[1], ep[2], Bearer(tok), param, body)
               IN  \A b \in DOMAIN bookings :
                       /\ b \in DOMAIN out.bookings
                       /\ (~param.valid \/ b # param.oid) => out.bookings[b] = bookings[b]
                       /\ \A f \in DOMAIN bookings[b] :
                             out.bookings[b][f] # bookings[b][f] => f \in Changeable(handler)
                       /\ \A f \in {"customerId", "date", "time", "address", "description"} :
                             out.bookings[b][f] = bookings[b][f]

\* a mower's Accept has assigned one of two stored bookings and the other is
\* still pending
C31_Witness ==
    /\ resp.handler = "AcceptBooking"
    /\ resp.code = 200
    /\ \E b1 \in DOMAIN bookings : \E b2 \in DOMAIN bookings :
          /\ b1 # b2
          /\ bookings[b1].status = "accepted"
          /\ bookings[b1].mowerId = resp.ctx.userID
          /\ bookings[b2].status = "pending"
          /\ bookings[b2].mowerId = NilObjectID


----------------------------------------------------------------------------
(* C32 *)

\* two Accept requests of different mowers are in flight on the same booking:
\* both have read it and neither has written
BothRead(c1, c2) ==
    /\ c1.handler = "AcceptBooking" /\ c2.handler = "AcceptBooking"
    /\ c1.id = c2.id
    /\ c1.ctx.userID # c2.ctx.userID

\* C32: when the Accept requests of two different mowers have both read the
\* same pending booking before either writes, both are answered with success
\* and the stored mowerID is that of the later write.
C32_ConcurrentAcceptLastWriteWins ==
    \A c1 \in calls : \A c2 \in calls :
        BothRead(c1, c2)
        => LET first == Written(bookings, c1, now)
               second == Written(first, c2, now)
           IN  /\ c1.resp.code = 200 /\ c2.resp.code = 200
               /\ first[c1.id].status = "accepted"
               /\ first[c1.id].mowerId = c1.ctx.userID
               /\ second[c2.id].status = "accepted"
               /\ second[c2.id].mowerId = c2.ctx.userID

\* the earlier Accept has written and has been answered with success; the
\* Accept of another mower, which read the booking while it was pending, is
\* still to write
C32_Witness ==
    \E c \in calls :
        /\ c.handler = "AcceptBooking"
        /\ c.resp.code = 200
        /\ bookings[c.id].status = "accepted"
        /\ bookings[c.id].mowerId # c.ctx.userID
        /\ resp.handler = "AcceptBooking"
        /\ resp.code = 200
        /\ resp.ctx.userID = bookings[c.id].mowerId

----------------------------------------------------------------------------
(* C33 *)

\* C33: also when requests overlap, a booking whose stored status is
\* completed, cancelled or rejected keeps that status.
C33_TerminalStaysTerminal ==
    [][ \A b \in DOMAIN bookings :
            bookings[b].status \in Terminal => bookings'[b].status = bookings[b].status ]_vars

----------------------------------------------------------------------------
(* C34 *)

\* C34: also when registrations overlap, no two stored users share an email.
C34_EmailUniqueUnderOverlap ==
    \A u \in users : \A v \in users : u.email = v.email => u.id = v.id

====
